---- MODULE Spec2Model ----
(***************************************************************************)
(* Model of src/src/binary_search_tree.rs: an unbalanced binary search     *)
(* tree (BinarySearchTree<T>) and its in-order cursor                      *)
(* (BinarySearchTreeIterator<T>).                                          *)
(*                                                                         *)
(* The owned tree (Option<Box<BinarySearchTree<T>>> children) is modelled  *)
(* as a heap: a sequence of node records addressed by index, the root at   *)
(* index 1, a child link of 0 standing for Option::None.  The cursor's     *)
(* Vec<&BinarySearchTree<T>> is a sequence of heap indices.                *)
(*                                                                         *)
(* The element type T is any type with a total order.  Elements are        *)
(* records [key, id]: Ord compares the key alone, and id (the ordinal of   *)
(* the insert call) tells apart values that compare equal.                 *)
(***************************************************************************)
EXTENDS Naturals, Sequences, FiniteSets

\* Bounds of the model.
MaxKey == 3
MaxInserts == 4

VARIABLES
    nodes,      \* heap of BinarySearchTree structs; nodes[1] is the root
    inserted,   \* history: the elements passed to insert, in call order
    live,       \* a cursor returned by iter() is alive (it borrows the tree)
    stack,      \* BinarySearchTreeIterator.stack (last entry = top)
    yielded,    \* history: the elements the live cursor returned as Some
    exhausted,  \* the live cursor has returned None at least once
    ret,        \* the last call and what it returned
    memo        \* a result the caller kept since the last insert

vars == <<nodes, inserted, live, stack, yielded, exhausted, ret, memo>>

----------------------------------------------------------------------------
\* Option<T>: None is the empty sequence, Some(x) the one-element sequence.
None == <<>>
Some(x) == <<x>>

Keys == 1..MaxKey
\* Values a caller may search for: every insertable key and one on each side.
ProbeKeys == 0..(MaxKey + 1)
Probe(k) == [key |-> k, id |-> 0]

\* T: Ord.  cmp compares keys only.
cmp(a, b) ==
    IF a.key < b.key THEN "Less"
    ELSE IF a.key = b.key THEN "Equal"
    ELSE "Greater"

\* The `<` of PartialOrd derived from cmp.
lt(a, b) == cmp(a, b) = "Less"

\* BinarySearchTree::new(): data None, left None, right None.
new == [data |-> None, left |-> 0, right |-> 0]

----------------------------------------------------------------------------
\* BinarySearchTree::search
RECURSIVE search(_, _, _)
\* Variant: a node without an element reports a match.
searchEmptyTrue(h, self, data) ==
    IF h[self].data # None
    THEN LET c == cmp(data, h[self].data[1])
         IN IF c = "Equal" THEN TRUE
            ELSE IF c = "Less"
                 THEN IF h[self].left # 0 THEN search(h, h[self].left, data) ELSE FALSE
                 ELSE IF h[self].right # 0 THEN search(h, h[self].right, data) ELSE FALSE
    ELSE TRUE

\* Variant: Greater descends to the left like Less.
searchLeftOnly(h, self, data) ==
    IF h[self].data # None
    THEN LET c == cmp(data, h[self].data[1])
         IN IF c = "Equal" THEN TRUE
            ELSE IF h[self].left # 0 THEN search(h, h[self].left, data) ELSE FALSE
    ELSE FALSE

search(h, self, data) ==
    IF h[self].data # None
    THEN LET c == cmp(data, h[self].data[1])
         IN IF c = "Equal" THEN TRUE
            ELSE IF c = "Less"
                 THEN IF h[self].left # 0 THEN search(h, h[self].left, data) ELSE FALSE
                 ELSE IF h[self].right # 0 THEN search(h, h[self].right, data) ELSE FALSE
    ELSE FALSE

\* BinarySearchTree::insert.  The heap after self.insert(data).
RECURSIVE insert(_, _, _)
\* Variant: `data <= *stored_data` chooses the left subtree.
insertLeEq(h, self, data) ==
    IF h[self].data = None
    THEN [h EXCEPT ![self].data = Some(data)]
    ELSE LET goLeft == ~lt(h[self].data[1], data)
             target == IF goLeft THEN h[self].left ELSE h[self].right
         IN IF target # 0
            THEN insert(h, target, data)
            ELSE LET n == Len(h) + 1
                     h2 == insert(Append(h, new), n, data)
                 IN IF goLeft THEN [h2 EXCEPT ![self].left = n]
                              ELSE [h2 EXCEPT ![self].right = n]

\* Variant: the new child is attached without node.insert(data).
insertNoFill(h, self, data) ==
    IF h[self].data = None
    THEN [h EXCEPT ![self].data = Some(data)]
    ELSE LET goLeft == lt(data, h[self].data[1])
             target == IF goLeft THEN h[self].left ELSE h[self].right
         IN IF target # 0
            THEN insert(h, target, data)
            ELSE LET n == Len(h) + 1
                     h2 == Append(h, new)
                 IN IF goLeft THEN [h2 EXCEPT ![self].left = n]
                              ELSE [h2 EXCEPT ![self].right = n]

\* Variant: a value equal to the stored element is dropped.
insertDedup(h, self, data) ==
    IF h[self].data = None
    THEN [h EXCEPT ![self].data = Some(data)]
    ELSE IF cmp(data, h[self].data[1]) = "Equal"
    THEN h
    ELSE LET goLeft == lt(data, h[self].data[1])
             target == IF goLeft THEN h[self].left ELSE h[self].right
         IN IF target # 0
            THEN insert(h, target, data)
            ELSE LET n == Len(h) + 1
                     h2 == insert(Append(h, new), n, data)
                 IN IF goLeft THEN [h2 EXCEPT ![self].left = n]
                              ELSE [h2 EXCEPT ![self].right = n]

insert(h, self, data) ==
    IF h[self].data = None
    THEN [h EXCEPT ![self].data = Some(data)]
    ELSE LET goLeft == lt(data, h[self].data[1])
             target == IF goLeft THEN h[self].left ELSE h[self].right
         IN IF target # 0
            THEN insert(h, target, data)
            ELSE LET n == Len(h) + 1
                     \* let mut node = Self::new(); node.insert(data);
                     h2 == insert(Append(h, new), n, data)
                 \* *target_node = Some(Box::new(node));
                 IN IF goLeft THEN [h2 EXCEPT ![self].left = n]
                              ELSE [h2 EXCEPT ![self].right = n]

\* BinarySearchTree::min
RECURSIVE min(_, _)
\* Variant: no descent, the node's own element.
minHere(h, self) == h[self].data

min(h, self) ==
    IF h[self].left # 0 THEN min(h, h[self].left) ELSE h[self].data

\* BinarySearchTree::max
RECURSIVE max(_, _)
max(h, self) ==
    IF h[self].right # 0 THEN max(h, h[self].right) ELSE h[self].data

----------------------------------------------------------------------------
\* BinarySearchTreeIterator::stack_push_left: the stack after the loop.
RECURSIVE stack_push_left(_, _)
\* Variant: the loop body runs at most once.
stackPushLeftOnce(h, st) ==
    LET child == h[st[Len(st)]].left
    IN IF child # 0 THEN Append(st, child) ELSE st

stack_push_left(h, st) ==
    LET child == h[st[Len(st)]].left
    IN IF child # 0 THEN stack_push_left(h, Append(st, child)) ELSE st

\* BinarySearchTreeIterator::new: the initial stack.
iterNew(h, tree) == stack_push_left(h, <<tree>>)

\* Variant of next that pushes the right child without the descent to the left.
nextStackNoDescend(h, st) ==
    LET node == st[Len(st)]
        popped == SubSeq(st, 1, Len(st) - 1)
    IN IF h[node].right # 0 THEN Append(popped, h[node].right) ELSE popped

\* BinarySearchTreeIterator::next: the stack after a call on a non-empty stack.
nextStack(h, st) ==
    LET node == st[Len(st)]
        popped == SubSeq(st, 1, Len(st) - 1)
    IN IF h[node].right # 0
       THEN stack_push_left(h, Append(popped, h[node].right))
       ELSE popped

----------------------------------------------------------------------------
NoCall == [op |-> "new", arg |-> None, val |-> None]
NoMemo == [op |-> "none", arg |-> None, val |-> None]

\* let mut tree = BinarySearchTree::new();
Init ==
    /\ nodes = <<new>>
    /\ inserted = <<>>
    /\ live = FALSE
    /\ stack = <<>>
    /\ yielded = <<>>
    /\ exhausted = FALSE
    /\ ret = NoCall
    /\ memo = NoMemo

\* tree.insert(data).  insert takes &mut self, so no cursor borrows the tree.
Insert ==
    /\ ~live
    /\ Len(inserted) < MaxInserts
    /\ \E k \in Keys :
         LET data == [key |-> k, id |-> Len(inserted) + 1]
         IN /\ nodes' = insert(nodes, 1, data)
            /\ inserted' = Append(inserted, data)
            /\ ret' = [op |-> "insert", arg |-> Some(data), val |-> None]
    /\ memo' = NoMemo
    /\ UNCHANGED <<live, stack, yielded, exhausted>>

\* tree.search(&data)
Search ==
    /\ \E k \in ProbeKeys :
         ret' = [op |-> "search", arg |-> Some(Probe(k)),
                 val |-> search(nodes, 1, Probe(k))]
    /\ UNCHANGED <<nodes, inserted, live, stack, yielded, exhausted, memo>>

\* tree.min()
Min ==
    /\ ret' = [op |-> "min", arg |-> None, val |-> min(nodes, 1)]
    /\ UNCHANGED <<nodes, inserted, live, stack, yielded, exhausted, memo>>

\* tree.max()
Max ==
    /\ ret' = [op |-> "max", arg |-> None, val |-> max(nodes, 1)]
    /\ UNCHANGED <<nodes, inserted, live, stack, yielded, exhausted, memo>>

\* let mut iter = tree.iter();  (a previous cursor is dropped)
Iter ==
    /\ live' = TRUE
    /\ stack' = iterNew(nodes, 1)
    /\ yielded' = <<>>
    /\ exhausted' = FALSE
    /\ ret' = [op |-> "iter", arg |-> None, val |-> None]
    /\ UNCHANGED <<nodes, inserted, memo>>

\* Variant of iter.next() that moves the element out of the node it pops.
IterNextTake ==
    /\ live
    /\ stack # <<>>
    /\ LET node == stack[Len(stack)]
           out == nodes[node].data
       IN /\ stack' = nextStack(nodes, stack)
          /\ nodes' = [nodes EXCEPT ![node].data = None]
          /\ yielded' = IF out # None THEN Append(yielded, out[1]) ELSE yielded
          /\ exhausted' = (exhausted \/ out = None)
          /\ ret' = [op |-> "next", arg |-> None, val |-> out]
    /\ UNCHANGED <<inserted, live, memo>>

\* iter.next()
IterNext ==
    /\ live
    /\ IF stack = <<>>
       THEN /\ ret' = [op |-> "next", arg |-> None, val |-> None]
            /\ exhausted' = TRUE
            /\ UNCHANGED <<stack, yielded>>
       ELSE LET node == stack[Len(stack)]
                out == nodes[node].data
            IN /\ stack' = nextStack(nodes, stack)
               /\ yielded' = IF out # None THEN Append(yielded, out[1]) ELSE yielded
               /\ exhausted' = (exhausted \/ out = None)
               /\ ret' = [op |-> "next", arg |-> None, val |-> out]
    /\ UNCHANGED <<nodes, inserted, live, memo>>

\* The cursor goes out of scope; its borrow of the tree ends.
DropIter ==
    /\ live
    /\ live' = FALSE
    /\ stack' = <<>>
    /\ yielded' = <<>>
    /\ exhausted' = FALSE
    /\ ret' = [op |-> "drop", arg |-> None, val |-> None]
    /\ UNCHANGED <<nodes, inserted, memo>>

\* The caller keeps the result it just got (or a completed traversal) in order
\* to compare it with a later one.
Remember ==
    /\ \/ /\ ret.op \in {"search", "min", "max"}
          /\ memo' = ret
       \/ /\ live /\ exhausted
          /\ memo' = [op |-> "traversal", arg |-> None, val |-> yielded]
    /\ memo' # memo
    /\ UNCHANGED <<nodes, inserted, live, stack, yielded, exhausted, ret>>

Next ==
    \/ Insert
    \/ Search
    \/ Min
    \/ Max
    \/ Iter
    \/ IterNext
    \/ DropIter
    \/ Remember

Spec == Init /\ [][Next]_vars

----------------------------------------------------------------------------
\* Vocabulary of the properties (derived from the state, not part of the code).

\* The nodes of the subtree rooted at link i (none for the link 0).
RECURSIVE Subtree(_, _)
Subtree(h, i) ==
    IF i = 0 THEN {}
    ELSE {i} \cup Subtree(h, h[i].left) \cup Subtree(h, h[i].right)

\* The number of node structures making up the subtree rooted at link i.
RECURSIVE NodeCount(_, _)
NodeCount(h, i) ==
    IF i = 0 THEN 0
    ELSE 1 + NodeCount(h, h[i].left) + NodeCount(h, h[i].right)

\* The populated nodes of the subtree at link i: left subtree, node, right subtree.
RECURSIVE InOrder(_, _)
InOrder(h, i) ==
    IF i = 0 THEN <<>>
    ELSE InOrder(h, h[i].left)
         \o (IF h[i].data # None THEN <<i>> ELSE <<>>)
         \o InOrder(h, h[i].right)

Range(s) == {s[i] : i \in DOMAIN s}
Pos(s, x) == CHOOSE p \in DOMAIN s : s[p] = x
InsertedKeys == {inserted[i].key : i \in DOMAIN inserted}
HasDuplicate(s) == \E i, j \in DOMAIN s : i < j /\ s[i].key = s[j].key
IsPrefix(s, t) == Len(s) <= Len(t) /\ SubSeq(t, 1, Len(s)) = s
InsertStep == Len(inserted') = Len(inserted) + 1

\* e placed behind every element of the sorted sequence s that is not greater.
RECURSIVE PlaceStable(_, _)
PlaceStable(s, e) ==
    IF s = <<>> \/ s[Len(s)].key <= e.key THEN Append(s, e)
    ELSE Append(PlaceStable(SubSeq(s, 1, Len(s) - 1), e), s[Len(s)])

\* The stable sort of s by key.
RECURSIVE StableSort(_)
StableSort(s) ==
    IF s = <<>> THEN <<>>
    ELSE PlaceStable(StableSort(SubSeq(s, 1, Len(s) - 1)), s[Len(s)])

----------------------------------------------------------------------------
\* C1 (BST invariant): after any sequence of inserts, for every node holding
\* an element e, every element of its left subtree is strictly less than e and
\* every element of its right subtree is greater than or equal to e.
C1_BstInvariant ==
    \A n \in Subtree(nodes, 1) :
        nodes[n].data # None =>
            /\ \A m \in Subtree(nodes, nodes[n].left) :
                   nodes[m].data # None /\ lt(nodes[m].data[1], nodes[n].data[1])
            /\ \A m \in Subtree(nodes, nodes[n].right) :
                   nodes[m].data # None /\ ~lt(nodes[m].data[1], nodes[n].data[1])

\* A node with both children whose right child holds an equal element.
C1_Witness ==
    \E n \in Subtree(nodes, 1) :
        /\ nodes[n].left # 0
        /\ nodes[n].right # 0
        /\ nodes[nodes[n].right].data[1].key = nodes[n].data[1].key

\* C2 (search correctness): search(v) is true exactly when v equals some
\* inserted value (duplicates allowed), for the value of every call made and
\* for every value that could be asked for.
C2_SearchCorrect ==
    /\ \A k \in ProbeKeys : search(nodes, 1, Probe(k)) = (k \in InsertedKeys)
    /\ ret.op = "search" => ret.val = (ret.arg[1].key \in InsertedKeys)

\* A search that found a value stored twice, below the root, in a tree that
\* lacks another insertable value.
C2_Witness ==
    /\ ret.op = "search"
    /\ ret.val = TRUE
    /\ HasDuplicate(inserted)
    /\ nodes[1].data[1].key # ret.arg[1].key
    /\ InsertedKeys # Keys

\* C3 (sorted traversal): a cursor advanced until it first returns None has
\* yielded exactly as many elements as were inserted, in non-decreasing order,
\* and they are exactly the inserted elements, each once.
C3_SortedTraversal ==
    (live /\ exhausted) =>
        /\ Len(yielded) = Len(inserted)
        /\ \A i, j \in DOMAIN yielded : i < j => ~lt(yielded[j], yielded[i])
        /\ Range(yielded) = Range(inserted)
        /\ \A i, j \in DOMAIN yielded : i # j => yielded[i] # yielded[j]

\* A finished traversal of a tree of several nodes, not inserted in order.
C3_Witness ==
    /\ live /\ exhausted
    /\ Len(yielded) = MaxInserts
    /\ yielded # inserted
    /\ HasDuplicate(yielded)

\* C4 (min/max): on a tree with at least one insertion, min() is Some of an
\* element equal to the smallest inserted value, max() Some of an element
\* equal to the largest.
C4_MinMaxCorrect ==
    inserted # <<>> =>
        /\ min(nodes, 1) # None
        /\ min(nodes, 1)[1] \in Range(inserted)
        /\ \A k \in InsertedKeys : min(nodes, 1)[1].key <= k
        /\ max(nodes, 1) # None
        /\ max(nodes, 1)[1] \in Range(inserted)
        /\ \A k \in InsertedKeys : k <= max(nodes, 1)[1].key
        /\ ret.op = "min" => ret.val = min(nodes, 1)
        /\ ret.op = "max" => ret.val = max(nodes, 1)

\* min() was called on a tree whose minimum and maximum are both below the root.
C4_Witness ==
    /\ ret.op = "min"
    /\ ret.val # None
    /\ ret.val # nodes[1].data
    /\ max(nodes, 1) # nodes[1].data

\* C5 (empty tree): with no insertion performed, search is false for every
\* value, min() and max() are None, a new cursor's stack holds the root alone
\* and its first advance returns None.
C5_EmptyTree ==
    inserted = <<>> =>
        /\ \A k \in ProbeKeys : ~search(nodes, 1, Probe(k))
        /\ min(nodes, 1) = None
        /\ max(nodes, 1) = None
        /\ ret.op = "search" => ret.val = FALSE
        /\ ret.op \in {"min", "max", "next"} => ret.val = None
        /\ ret.op = "next" => exhausted /\ yielded = <<>>
        /\ ret.op = "iter" => stack = <<1>>

\* The first advance of a cursor over the empty tree has returned.
C5_Witness ==
    /\ inserted = <<>>
    /\ ret.op = "next"
    /\ exhausted

\* C6 (queries are read-only and repeatable): only insert changes the tree;
\* and with no insert in between, a search, min or max returns what the same
\* call returned before, and a cursor from a new iter() yields what an earlier
\* completed traversal yielded.
C6_Repeatable ==
    /\ (memo.op \in {"search", "min", "max"} /\ ret.op = memo.op /\ ret.arg = memo.arg)
           => ret.val = memo.val
    /\ (memo.op = "traversal" /\ live)
           => /\ IsPrefix(yielded, memo.val)
              /\ exhausted => yielded = memo.val

C6_ReadOnly == ~InsertStep => nodes' = nodes

C6_QueriesReadOnlyRepeatable == [][C6_ReadOnly]_vars /\ []C6_Repeatable

\* A second cursor has yielded every element again after a completed
\* traversal was kept.
C6_Witness ==
    /\ memo.op = "traversal"
    /\ live /\ ~exhausted
    /\ ret.op = "next"
    /\ Len(yielded) = MaxInserts

\* C7 (one node per insertion, as stated): every insert call, the first one on
\* the fresh root included, makes the tree one node structure larger.
C7_OneNodePerInsert ==
    [][InsertStep => NodeCount(nodes', 1) = NodeCount(nodes, 1) + 1]_vars

\* C7 (amended): an insert into a tree whose root holds an element makes the
\* tree exactly one node larger; the first insert fills the root and leaves
\* the number of nodes at one.
C7_OneNodePerLaterInsert ==
    [][InsertStep =>
          NodeCount(nodes', 1) =
              NodeCount(nodes, 1) + (IF nodes[1].data = None THEN 0 ELSE 1)]_vars

\* Inserts of equal values have each added a node.
C7_Witness ==
    /\ ret.op = "insert"
    /\ Len(inserted) = MaxInserts
    /\ HasDuplicate(inserted)
    /\ NodeCount(nodes, 1) = MaxInserts

\* The cursor invariant of C8 in the state at hand.
CursorInvariant ==
    LET io == InOrder(nodes, 1)
    IN /\ stack # <<>> =>
             /\ Len(yielded) < Len(io)
             /\ stack[Len(stack)] = io[Len(yielded) + 1]
       /\ \A i, j \in DOMAIN stack :
             i < j =>
                 /\ stack[i] # stack[j]
                 /\ stack[j] \in Subtree(nodes, stack[i])
                 /\ stack[i] \in Range(io)
                 /\ stack[j] \in Range(io)
                 /\ Pos(io, stack[i]) > Pos(io, stack[j])
       /\ (stack = <<>>) <=> (Len(yielded) = Len(io))

\* C8 (cursor invariant, as stated): for a cursor over any tree, after
\* construction and after every advance, a non-empty stack has on top the node
\* holding the next element of the sorted sequence, every lower entry is an
\* ancestor that comes later in the sequence, and the stack is empty exactly
\* when every populated node has been yielded.
C8_CursorInvariantAnyTree == live => CursorInvariant

\* C8 (amended): the same, for a cursor over a tree built by at least one
\* insertion.
C8_CursorInvariantNonEmpty == (live /\ inserted # <<>>) => CursorInvariant

\* After an advance, the stack holds a right child and its left descendant.
C8_Witness ==
    /\ live
    /\ ret.op = "next"
    /\ Len(yielded) = 1
    /\ Len(stack) = 2
    /\ nodes[stack[1]].left = stack[2]

\* C9 (empty-node invariant): a node with no element has no children, it is
\* the root of a tree never inserted into, and every non-root node holds an
\* element.
C9_EmptyNodeInvariant ==
    \A n \in DOMAIN nodes :
        /\ nodes[n].data = None =>
               nodes[n].left = 0 /\ nodes[n].right = 0 /\ n = 1 /\ inserted = <<>>
        /\ n # 1 => nodes[n].data # None

\* A tree with a populated grandchild of the root.
C9_Witness ==
    \E n \in DOMAIN nodes :
        /\ n # 1
        /\ nodes[n].left # 0 \/ nodes[n].right # 0
        /\ \A m \in DOMAIN nodes : nodes[m].data # None

\* C10 (stable order of duplicates): a completed traversal is the stable sort
\* of the insertion sequence: of two inserted values that compare equal, the
\* one inserted earlier is yielded first.
C10_StableOrder ==
    (live /\ exhausted) =>
        /\ yielded = StableSort(inserted)
        /\ \A i, j \in DOMAIN yielded :
               (i < j /\ yielded[i].key = yielded[j].key) => yielded[i].id < yielded[j].id

\* A completed traversal that yielded two equal values, the later one from
\* a node that is not the child of the earlier one's node.
C10_Witness ==
    /\ live /\ exhausted
    /\ \E i, j \in DOMAIN inserted :
          /\ j = i + 2
          /\ inserted[i].key = inserted[j].key
          /\ inserted[i + 1].key > inserted[i].key
    /\ yielded # <<>>

====
